---- MODULE Spec2Model ----
(***************************************************************************)
(* convolve2D of notebooks/unused/03a-example-convolutional-networks.ipynb *)
(* as a state machine: one call of the function, from its arguments to its *)
(* return value or to the exception that ends it.                          *)
(*                                                                         *)
(* An ndarray is a record [shape, data]: shape is the tuple numpy reports  *)
(* and data maps every 0-based index tuple to its element.  Samples and    *)
(* weights are integers, which numpy's float64 arithmetic represents and   *)
(* sums exactly.                                                           *)
(***************************************************************************)
EXTENDS Integers, Sequences, FiniteSets, TLC

\* ------------------------------------------------------------------ bounds
MaxDim == 3
MaxChan == 2
MaxK == 2
MaxPad == 1
MaxStride == 2
MaxCalls == 3
MaxPositions == 4

\* ----------------------------------------------------------- the arguments
Max(a, b) == IF a >= b THEN a ELSE b
Min(a, b) == IF a <= b THEN a ELSE b

Idx2(shape) == (0 .. shape[1] - 1) \X (0 .. shape[2] - 1)
Idx3(shape) == (0 .. shape[1] - 1) \X (0 .. shape[2] - 1) \X (0 .. shape[3] - 1)

\* The images a call is tried on: a ramp whose samples differ along rows,
\* columns and channels, and an image that is constant on each channel
\* (channel 0 all 0, channel 1 all 1).  Samples range over -1 .. 2.
ImageSeeds == {<<1, 2, 1>>, <<0, 0, 1>>}
ImagePixel(seed, r, c, ch) ==
    ((seed[1] * r + seed[2] * c + seed[3] * (ch + 1)) % 4) - 1
ImageOf(R, C, N, seed) ==
    [shape |-> <<R, C, N>>,
     data  |-> [x \in Idx3(<<R, C, N>>) |-> ImagePixel(seed, x[1], x[2], x[3])]]

\* The kernels: a ramp that is not symmetric under any flip or transpose,
\* the all-zero kernel and the all-one kernel.  Weights range over -1 .. 2.
KernelSeeds == {<<1, 2, 0>>, <<0, 0, 1>>, <<0, 0, 2>>}
KernelWeight(seed, a, b) == ((seed[1] * a + seed[2] * b + seed[3]) % 4) - 1
KernelOf(k0, k1, seed) ==
    [shape |-> <<k0, k1>>,
     data  |-> [x \in Idx2(<<k0, k1>>) |-> KernelWeight(seed, x[1], x[2])]]

\* The vertical Sobel kernel the notebook applies.
SobelKernel ==
    [shape |-> <<3, 3>>,
     data  |-> [x \in Idx2(<<3, 3>>) |->
                  <<<<1, 0, -1>>, <<2, 0, -2>>, <<1, 0, -1>>>>[x[1] + 1][x[2] + 1]]]

\* Every shape within the bounds, and the shapes of the worked examples:
\* images of 4 x 4 x 1 and 5 x 5 x 1, kernels of side 3 and 5.
Images ==
    {ImageOf(R, C, N, seed) :
        R \in 1 .. MaxDim, C \in 1 .. MaxDim, N \in 1 .. MaxChan, seed \in ImageSeeds}
    \cup {ImageOf(n, n, 1, seed) : n \in {4, 5}, seed \in ImageSeeds}
Kernels ==
    {KernelOf(k0, k1, seed) : k0 \in 0 .. MaxK, k1 \in 0 .. MaxK, seed \in KernelSeeds}
    \cup {SobelKernel}
    \cup {KernelOf(5, 5, seed) : seed \in KernelSeeds}
Paddings == -1 .. MaxPad
Strides == -1 .. MaxStride

\* ------------------------------------------------------------------- numpy
None == [shape |-> <<>>, data |-> <<>>]

\* Python's a // b: the quotient rounded towards minus infinity (b # 0).
FloorDiv(a, b) == IF b > 0 THEN a \div b ELSE (-a) \div (-b)

\* np.zeros(shape), shape without negative entries.
Zeros(shape) == [shape |-> shape, data |-> [x \in Idx3(shape) |-> 0]]

\* A slice bound i on an axis of length L, as Python normalises it.
SliceBound(i, L) == IF i < 0 THEN Max(i + L, 0) ELSE Min(i, L)
SliceLen(a, b, L) == Max(SliceBound(b, L) - SliceBound(a, L), 0)

\* arr[r0:r1, c0:c1, :]
Slice(arr, r0, r1, c0, c1) ==
    LET rs == SliceBound(r0, arr.shape[1])
        cs == SliceBound(c0, arr.shape[2])
        sh == <<SliceLen(r0, r1, arr.shape[1]), SliceLen(c0, c1, arr.shape[2]),
                arr.shape[3]>>
    IN  [shape |-> sh,
         data  |-> [x \in Idx3(sh) |-> arr.data[<<rs + x[1], cs + x[2], x[3]>>]]]

\* np.tensordot(kernel, window, axes=2) raises ValueError unless the two
\* axes of the kernel have the lengths of the first two axes of the window.
TensorDotFits(ker, win) ==
    /\ ker.shape[1] = win.shape[1]
    /\ ker.shape[2] = win.shape[2]

\* The sum of ker[a, b] * win[a, b, ch] over the first n cells of the kernel
\* in row-major order.
RECURSIVE DotPrefix(_, _, _, _)
DotPrefix(ker, win, ch, n) ==
    IF n = 0 THEN 0
    ELSE LET a == (n - 1) \div ker.shape[2]
             b == (n - 1) % ker.shape[2]
         IN  DotPrefix(ker, win, ch, n - 1)
                 + ker.data[<<a, b>>] * win.data[<<a, b, ch>>]

\* The kernel turned by 180 degrees, as a true convolution would apply it.
TensorDotFlipped(ker, win) ==
    LET flipped == [ker EXCEPT !.data =
                      [x \in DOMAIN ker.data |->
                          ker.data[<<ker.shape[1] - 1 - x[1], ker.shape[2] - 1 - x[2]>>]]]
    IN  [ch \in 0 .. win.shape[3] - 1 |->
            DotPrefix(flipped, win, ch, ker.shape[1] * ker.shape[2])]

\* Every channel of the output computed from channel 0 of the window.
TensorDotChannel0(ker, win) ==
    [ch \in 0 .. win.shape[3] - 1 |->
        DotPrefix(ker, win, 0, ker.shape[1] * ker.shape[2])]

\* The cells of the window summed without their weights.
TensorDotSum(ker, win) ==
    LET ones == [ker EXCEPT !.data = [x \in DOMAIN ker.data |-> 1]]
    IN  [ch \in 0 .. win.shape[3] - 1 |->
            DotPrefix(ones, win, ch, ker.shape[1] * ker.shape[2])]

\* The running sum truncated to [0, 1] after every term.
RECURSIVE DotPrefixFused(_, _, _, _)
DotPrefixFused(ker, win, ch, n) ==
    IF n = 0 THEN 0
    ELSE LET a == (n - 1) \div ker.shape[2]
             b == (n - 1) % ker.shape[2]
         IN  Min(Max(DotPrefixFused(ker, win, ch, n - 1)
                        + ker.data[<<a, b>>] * win.data[<<a, b, ch>>], 0), 1)
TensorDotFused(ker, win) ==
    [ch \in 0 .. win.shape[3] - 1 |->
        DotPrefixFused(ker, win, ch, ker.shape[1] * ker.shape[2])]

\* np.tensordot(kernel, window, axes=2): one value per channel.
TensorDot(ker, win) ==
    [ch \in 0 .. win.shape[3] - 1 |->
        DotPrefix(ker, win, ch, ker.shape[1] * ker.shape[2])]

\* np.maximum(arr, 0) and np.minimum(arr, 1).
Maximum0(arr) == [arr EXCEPT !.data = [x \in DOMAIN arr.data |-> Max(arr.data[x], 0)]]
Minimum1(arr) == [arr EXCEPT !.data = [x \in DOMAIN arr.data |-> Min(arr.data[x], 1)]]

\* The defaults of the parameters padding and stride.
DefaultPadding == 1
DefaultStride == 1

\* ------------------------------------------------------------------- state
\* Python binds names to objects.  heap maps every array object to its
\* value; the arguments are the objects "image" and "kernel", and an array a
\* numpy call creates is named after the call and the line that makes it.
\* padded_ref and output_ref are the objects the locals padded_image and
\* output_image are bound to.
VARIABLES
    heap,                                  \* object |-> ndarray
    padding, stride,                       \* the integer arguments
    padded_ref, output_ref,                \* locals bound to arrays
    k, nx_out, ny_out, ix_out, iy_out,     \* integer locals
    writes,     \* the pixels written so far: <<ix_out, iy_out, ix_in, iy_in>>
    pc,         \* "pad", "alloc", "loop", "clamp", "done", "raised" or "used"
    exc,        \* "none", or the exception that ended the call
    calls,      \* the number of calls made so far
    first       \* the arguments and the outcome of the first call

vars == <<heap, padding, stride, padded_ref, output_ref, k, nx_out, ny_out,
          ix_out, iy_out, writes, pc, exc, calls, first>>

Unbound == "unbound"

Deref(h, ref) == IF ref = Unbound THEN None ELSE h[ref]

\* The heap h with object id holding array v.
Bind(h, id, v) == [x \in DOMAIN h \cup {id} |-> IF x = id THEN v ELSE h[x]]

input_image == heap["image"]
kernel == heap["kernel"]
padded_image == Deref(heap, padded_ref)
output_image == Deref(heap, output_ref)

args == <<input_image, kernel, padding, stride>>

nx == input_image.shape[1]
ny == input_image.shape[2]
nchannel == input_image.shape[3]

NoCall == [args |-> <<>>, pc |-> "none", exc |-> "none", output |-> None, others |-> 0]

Init ==
    /\ \E img \in Images, ker \in Kernels :
          heap = Bind(Bind(<<>>, "image", img), "kernel", ker)
    /\ padding \in Paddings
    /\ stride \in Strides
    /\ padded_ref = Unbound
    /\ output_ref = Unbound
    /\ k = 0
    /\ nx_out = 0
    /\ ny_out = 0
    /\ ix_out = 0
    /\ iy_out = 0
    /\ writes = <<>>
    /\ pc = "pad"
    /\ exc = "none"
    /\ calls = 1
    /\ first = NoCall

\* ------------------------------------------------------------------ padding
\* The input copied to the top-left corner instead of offset (p, p).
PaddedOfCorner(img, p) ==
    LET sh == <<img.shape[1] + p * 2, img.shape[2] + p * 2, img.shape[3]>>
    IN  [shape |-> sh,
         data  |-> [x \in Idx3(sh) |->
                      IF x[1] < img.shape[1] /\ x[2] < img.shape[2]
                      THEN img.data[x]
                      ELSE 0]]
\* np.zeros((nx + padding*2, ny + padding*2, nchannel)) with the input stored
\* into padded_image[padding:-padding, padding:-padding, :].
PaddedOf(img, p) ==
    LET sh == <<img.shape[1] + p * 2, img.shape[2] + p * 2, img.shape[3]>>
        rs == SliceBound(p, sh[1])
        re == SliceBound(-p, sh[1])
        cs == SliceBound(p, sh[2])
        ce == SliceBound(-p, sh[2])
    IN  [shape |-> sh,
         data  |-> [x \in Idx3(sh) |->
                      IF rs <= x[1] /\ x[1] < re /\ cs <= x[2] /\ x[2] < ce
                      THEN img.data[<<x[1] - rs, x[2] - cs, x[3]>>]
                      ELSE 0]]

PadZeros ==
    /\ pc = "pad"
    /\ padding > 0
    /\ heap' = Bind(heap, "zeros_100", PaddedOf(input_image, padding))
    /\ padded_ref' = "zeros_100"
    /\ pc' = "alloc"
    /\ UNCHANGED <<padding, stride, output_ref, k, nx_out, ny_out, ix_out, iy_out,
                   writes, exc, calls, first>>

\* padded_image = input_image binds a second name to the caller's array.
PadNone ==
    /\ pc = "pad"
    /\ ~(padding > 0)
    /\ padded_ref' = "image"
    /\ pc' = "alloc"
    /\ UNCHANGED <<heap, padding, stride, output_ref, k, nx_out, ny_out, ix_out,
                   iy_out, writes, exc, calls, first>>

\* ---------------------------------------------------------- allocate output
KernelSide(ker) == ker.shape[1]
\* The quotient rounded up: the trailing partial placement counted.
OutLenCeil(n, p, side, s) == (-FloorDiv(-(n + p * 2 - side), s)) + 1
\* The "+ 1" left out.
OutLenNoPlusOne(n, p, side, s) == FloorDiv(n + p * 2 - side, s)
\* The padding counted on one border only.
OutLenPadOnce(n, p, side, s) == FloorDiv(n + p - side, s) + 1
OutLen(n, p, side, s) == FloorDiv(n + p * 2 - side, s) + 1

\* stride = 0: the floor division of line 107 raises.
AllocDivByZero ==
    /\ pc = "alloc"
    /\ stride = 0
    /\ k' = KernelSide(kernel)
    /\ pc' = "raised"
    /\ exc' = "ZeroDivisionError"
    /\ UNCHANGED <<heap, padding, stride, padded_ref, output_ref, nx_out, ny_out,
                   ix_out, iy_out, writes, calls, first>>

\* np.zeros refuses a negative dimension.
AllocNegative ==
    /\ pc = "alloc"
    /\ stride # 0
    /\ k' = KernelSide(kernel)
    /\ nx_out' = OutLen(nx, padding, k', stride)
    /\ ny_out' = OutLen(ny, padding, k', stride)
    /\ (nx_out' < 0 \/ ny_out' < 0)
    /\ pc' = "raised"
    /\ exc' = "ValueError"
    /\ UNCHANGED <<heap, padding, stride, padded_ref, output_ref, ix_out, iy_out,
                   writes, calls, first>>

\* A for statement over np.arange(n) leaves its index where it was.
LoopStartKeep(i) == i
\* The index kept in a counter that outlives the call: a later call starts
\* its loops one position further for every call made before it.
LoopStartCounted(i) == calls - 1
\* A for statement over np.arange(n), n > 0, starts its index at 0.
LoopStart(i) == 0

\* np.zeros makes a new array.
AllocObject(pad_ref) == "zeros_109"

\* Allocates the output and enters the loops of lines 112-113: with no row
\* the body never runs; with rows and no column the outer loop runs through.
Alloc ==
    /\ pc = "alloc"
    /\ stride # 0
    /\ k' = KernelSide(kernel)
    /\ nx_out' = OutLen(nx, padding, k', stride)
    /\ ny_out' = OutLen(ny, padding, k', stride)
    /\ nx_out' >= 0
    /\ ny_out' >= 0
    /\ output_ref' = AllocObject(padded_ref)
    /\ heap' = Bind(heap, output_ref', Zeros(<<nx_out', ny_out', nchannel>>))
    /\ IF nx_out' = 0
       THEN pc' = "clamp" /\ UNCHANGED <<ix_out, iy_out>>
       ELSE IF ny_out' = 0
            THEN pc' = "clamp" /\ ix_out' = nx_out' - 1 /\ UNCHANGED iy_out
            ELSE pc' = "loop" /\ ix_out' = LoopStart(ix_out) /\ iy_out' = LoopStart(iy_out)
    /\ UNCHANGED <<padding, stride, padded_ref, writes, exc, calls, first>>

\* ------------------------------------------------------------ the pixel loop
\* The stride left out.
InIndexUnit(i_out, s) == i_out
InIndex(i_out, s) == i_out * s

\* The window taken one row too low.
WindowAtShifted(padded, ix_in, iy_in, side) ==
    Slice(padded, ix_in + 1, ix_in + 1 + side, iy_in, iy_in + side)
WindowAt(padded, ix_in, iy_in, side) ==
    Slice(padded, ix_in, ix_in + side, iy_in, iy_in + side)

Window == WindowAt(padded_image, InIndex(ix_out, stride), InIndex(iy_out, stride), k)

\* arr[i, j, :] = vals
StoreChannels(arr, i, j, vals) ==
    [arr EXCEPT !.data =
        [x \in DOMAIN arr.data |->
            IF x[1] = i /\ x[2] = j THEN vals[x[3]] ELSE arr.data[x]]]

\* The result stored into the padded image.
WriteTargetPadded(out_ref, pad_ref) == pad_ref
\* The array the assignment of line 117 stores into.
WriteTarget(out_ref, pad_ref) == out_ref

\* output_image[ix_out, iy_out, :] = np.tensordot(...)
Pixel ==
    /\ pc = "loop"
    /\ TensorDotFits(kernel, Window)
    /\ LET target == WriteTarget(output_ref, padded_ref)
       IN  heap' = [heap EXCEPT ![target] =
                      StoreChannels(heap[target], ix_out, iy_out,
                                    TensorDot(kernel, Window))]
    /\ writes' = Append(writes, <<ix_out, iy_out, InIndex(ix_out, stride),
                                  InIndex(iy_out, stride)>>)
    /\ IF iy_out + 1 < ny_out
       THEN /\ iy_out' = iy_out + 1
            /\ UNCHANGED <<ix_out, pc>>
       ELSE IF ix_out + 1 < nx_out
            THEN /\ ix_out' = ix_out + 1
                 /\ iy_out' = LoopStart(iy_out)
                 /\ pc' = pc
            ELSE /\ UNCHANGED <<ix_out, iy_out>>
                 /\ pc' = "clamp"
    /\ UNCHANGED <<padding, stride, padded_ref, output_ref, k, nx_out, ny_out, exc,
                   calls, first>>

\* The window and the kernel differ in shape: tensordot raises.
PixelMismatch ==
    /\ pc = "loop"
    /\ ~TensorDotFits(kernel, Window)
    /\ pc' = "raised"
    /\ exc' = "ValueError"
    /\ UNCHANGED <<heap, padding, stride, padded_ref, output_ref, k, nx_out, ny_out,
                   ix_out, iy_out, writes, calls, first>>

\* ------------------------------------------------------- truncate to [0, 1]
\* The upper bound left out.
ClampLowerOnly(arr) == Maximum0(arr)
Clamp(arr) == Minimum1(Maximum0(arr))

\* The clamped values stored back into the padded image, which is returned.
ClampObjectPadded(out_ref, pad_ref) == pad_ref
\* np.maximum and np.minimum each make a new array; the last one is returned.
ClampObject(out_ref, pad_ref) == "minimum_122"

Truncate ==
    /\ pc = "clamp"
    /\ output_ref' = ClampObject(output_ref, padded_ref)
    /\ heap' = Bind(heap, output_ref', Clamp(output_image))
    /\ pc' = "done"
    /\ UNCHANGED <<padding, stride, padded_ref, k, nx_out, ny_out, ix_out, iy_out,
                   writes, exc, calls, first>>

\* ------------------------------------------------------ the call as a whole
\* What convolve2D returns for arguments on which nothing raises.
ConvolveOf(img, ker, p, s) ==
    LET padded == IF p > 0 THEN PaddedOf(img, p) ELSE img
        side == KernelSide(ker)
        sh == <<OutLen(img.shape[1], p, side, s), OutLen(img.shape[2], p, side, s),
                img.shape[3]>>
    IN  Clamp([shape |-> sh,
               data  |-> [x \in Idx3(sh) |->
                            TensorDot(ker, WindowAt(padded, InIndex(x[1], s),
                                                    InIndex(x[2], s), side))[x[3]]]])

\* ---------------------------------------------------------------- the caller
\* After the call the caller owns the returned array and stores into it.
CallerWrite ==
    /\ pc = "done"
    /\ \E x \in DOMAIN output_image.data :
          heap' = [heap EXCEPT ![output_ref] =
                     [@ EXCEPT !.data = [@ EXCEPT ![x] = 9]]]
    /\ pc' = "used"
    /\ UNCHANGED <<padding, stride, padded_ref, output_ref, k, nx_out, ny_out,
                   ix_out, iy_out, writes, exc, calls, first>>

Next ==
    \/ PadZeros
    \/ PadNone
    \/ AllocDivByZero
    \/ AllocNegative
    \/ Alloc
    \/ Pixel
    \/ PixelMismatch
    \/ Truncate
    \/ CallerWrite

Spec == Init /\ [][Next]_vars

\* -------------------------------------------------------- a call that runs
\* One call, which the interpreter keeps running while it can take a step.
\* The images have the most channels allowed and the kernels are ramps of
\* every shape, the shape of the empty kernel included.
LiveImages == {ImageOf(R, C, MaxChan, <<1, 2, 1>>) : R \in 1 .. MaxDim, C \in 1 .. MaxDim}
LiveKernels == {KernelOf(k0, k1, <<1, 2, 0>>) : k0 \in 0 .. MaxK, k1 \in 0 .. MaxK}

InitLive ==
    /\ \E img \in LiveImages, ker \in LiveKernels :
          heap = Bind(Bind(<<>>, "image", img), "kernel", ker)
    /\ padding \in Paddings
    /\ stride \in 0 .. MaxStride
    /\ padded_ref = Unbound
    /\ output_ref = Unbound
    /\ k = 0
    /\ nx_out = 0
    /\ ny_out = 0
    /\ ix_out = 0
    /\ iy_out = 0
    /\ writes = <<>>
    /\ pc = "pad"
    /\ exc = "none"
    /\ calls = 1
    /\ first = NoCall

NextLive ==
    \/ PadZeros
    \/ PadNone
    \/ AllocDivByZero
    \/ AllocNegative
    \/ Alloc
    \/ Pixel
    \/ PixelMismatch
    \/ Truncate

SpecLive == InitLive /\ [][NextLive]_vars /\ WF_vars(NextLive)

\* ---------------------------------------------------------- repeated calls
\* A caller that calls convolve2D again and again.  It repeats the arguments
\* of its first call or makes one of two other calls: one that computes nine
\* pixels of two channels and one that raises inside the loop.  Every call
\* starts in a new frame: only the four parameters are bound, the locals of
\* the previous call are gone.  The arrays the previous call made stay in the
\* heap, where the caller may still hold them.
CallImages ==
    {ImageOf(R, C, N, <<1, 2, 1>>) : R \in 1 .. 2, C \in 1 .. 2, N \in 1 .. 2}
CallKernels ==
    {KernelOf(k0, k1, seed) : k0 \in 0 .. 2, k1 \in 0 .. 2, seed \in KernelSeeds}
OtherCalls ==
    {<<ImageOf(2, 2, 2, <<1, 2, 1>>), KernelOf(2, 2, <<1, 2, 0>>), 1, 1>>,
     <<ImageOf(2, 1, 1, <<1, 2, 1>>), KernelOf(1, 2, <<0, 0, 2>>), 0, 1>>}

InitCalls ==
    /\ \E img \in CallImages, ker \in CallKernels :
          heap = Bind(Bind(<<>>, "image", img), "kernel", ker)
    /\ padding \in -1 .. 1
    /\ stride \in -1 .. 2
    /\ padded_ref = Unbound
    /\ output_ref = Unbound
    /\ k = 0
    /\ nx_out = 0
    /\ ny_out = 0
    /\ ix_out = 0
    /\ iy_out = 0
    /\ writes = <<>>
    /\ pc = "pad"
    /\ exc = "none"
    /\ calls = 1
    /\ first = NoCall

Outcome ==
    [args |-> args, pc |-> pc, exc |-> exc,
     output |-> IF pc = "done" THEN output_image ELSE None, others |-> 0]

Recall ==
    /\ pc \in {"done", "raised"}
    /\ calls < MaxCalls
    /\ calls' = calls + 1
    /\ \E a \in {(IF calls = 1 THEN Outcome ELSE first).args} \cup OtherCalls :
          /\ heap' = Bind(Bind(heap, "image", a[1]), "kernel", a[2])
          /\ padding' = a[3]
          /\ stride' = a[4]
          /\ LET f == IF calls = 1 THEN Outcome ELSE first
             IN  first' = IF a = f.args THEN f ELSE [f EXCEPT !.others = @ + 1]
    /\ pc' = "pad"
    /\ exc' = "none"
    /\ writes' = <<>>
    /\ padded_ref' = Unbound
    /\ output_ref' = Unbound
    /\ k' = 0
    /\ nx_out' = 0
    /\ ny_out' = 0
    /\ ix_out' = 0
    /\ iy_out' = 0

NextCalls ==
    \/ PadZeros
    \/ PadNone
    \/ AllocDivByZero
    \/ AllocNegative
    \/ Alloc
    \/ Pixel
    \/ PixelMismatch
    \/ Truncate
    \/ Recall

SpecCalls == InitCalls /\ [][NextCalls]_vars

\* ------------------------------------------- the pixels taken in any order
\* The call with the two for statements of lines 112-113 replaced by a
\* scheduler that takes the output positions in any order, one whole pixel at
\* a time: the body of the loop (lines 114-118) is the code's.  The arguments
\* are those on which nothing raises and that have at most MaxPositions
\* output positions.
OrderImages ==
    {ImageOf(R, C, N, <<1, 2, 1>>) : R \in 1 .. MaxDim, C \in 1 .. MaxDim, N \in 1 .. MaxChan}
OrderKernels ==
    {KernelOf(side, side, seed) : side \in 1 .. MaxK, seed \in {<<1, 2, 0>>, <<0, 0, 2>>}}

InitOrder ==
    /\ \E img \in OrderImages, ker \in OrderKernels :
          heap = Bind(Bind(<<>>, "image", img), "kernel", ker)
    /\ padding \in 0 .. MaxPad
    /\ stride \in 1 .. MaxStride
    /\ nx + padding * 2 >= KernelSide(kernel)
    /\ ny + padding * 2 >= KernelSide(kernel)
    /\ OutLen(nx, padding, KernelSide(kernel), stride)
          * OutLen(ny, padding, KernelSide(kernel), stride) <= MaxPositions
    /\ padded_ref = Unbound
    /\ output_ref = Unbound
    /\ k = 0
    /\ nx_out = 0
    /\ ny_out = 0
    /\ ix_out = 0
    /\ iy_out = 0
    /\ writes = <<>>
    /\ pc = "pad"
    /\ exc = "none"
    /\ calls = 1
    /\ first = NoCall

\* The output positions whose pixel has been computed.
Written == {<<writes[n][1], writes[n][2]>> : n \in 1 .. Len(writes)}

\* One pass of the loop body at a position not yet computed.
PixelAnyOrder ==
    /\ pc = "loop"
    /\ \E i \in 0 .. nx_out - 1, j \in 0 .. ny_out - 1 :
          /\ <<i, j>> \notin Written
          /\ LET window == WindowAt(padded_image, InIndex(i, stride),
                                    InIndex(j, stride), k)
                 target == WriteTarget(output_ref, padded_ref)
             IN  /\ TensorDotFits(kernel, window)
                 /\ heap' = [heap EXCEPT ![target] =
                               StoreChannels(heap[target], i, j,
                                             TensorDot(kernel, window))]
          /\ writes' = Append(writes, <<i, j, InIndex(i, stride), InIndex(j, stride)>>)
          /\ ix_out' = i
          /\ iy_out' = j
    /\ pc' = IF Len(writes') = nx_out * ny_out THEN "clamp" ELSE "loop"
    /\ UNCHANGED <<padding, stride, padded_ref, output_ref, k, nx_out, ny_out, exc,
                   calls, first>>

NextOrder ==
    \/ PadZeros
    \/ PadNone
    \/ Alloc
    \/ PixelAnyOrder
    \/ Truncate

SpecOrder == InitOrder /\ [][NextOrder]_vars

\* ------------------------------------------------------- the stated contract
\* The validity constraints: a square kernel of side at least 1, padding at
\* least 0, stride at least 1, and a padded image the kernel fits in.
Side == kernel.shape[1]
Square == kernel.shape[1] = kernel.shape[2]
ExtentX == nx + 2 * padding - Side
ExtentY == ny + 2 * padding - Side
ValidInputs ==
    /\ Square
    /\ Side >= 1
    /\ padding >= 0
    /\ stride >= 1
    /\ ExtentX >= 0
    /\ ExtentY >= 0

Returned == pc = "done"
Raised == pc = "raised"

\* The padded image as the contract describes it: the input at offset
\* (padding, padding), 0.0 on the border.
ContractPadded(r, c, ch) ==
    IF /\ padding <= r /\ r < padding + nx
       /\ padding <= c /\ c < padding + ny
    THEN input_image.data[<<r - padding, c - padding, ch>>]
    ELSE 0

\* The sum over 0 <= a, b < Side of kernel[a][b] * padded[i*s+a][j*s+b][ch].
RECURSIVE CorrCols(_, _, _, _, _)
CorrCols(i, j, ch, a, b) ==
    IF b < 0 THEN 0
    ELSE kernel.data[<<a, b>>] * ContractPadded(i * stride + a, j * stride + b, ch)
            + CorrCols(i, j, ch, a, b - 1)
RECURSIVE CorrRows(_, _, _, _)
CorrRows(i, j, ch, a) ==
    IF a < 0 THEN 0
    ELSE CorrCols(i, j, ch, a, Side - 1) + CorrRows(i, j, ch, a - 1)
CrossCorrelation(i, j, ch) == CorrRows(i, j, ch, Side - 1)

ClampUnit(v) == IF v < 0 THEN 0 ELSE IF v > 1 THEN 1 ELSE v

\* C1: for valid R, C, N, k, p, s the array convolve2D returns has shape
\* ((R+2p-k)//s + 1, (C+2p-k)//s + 1, N), and one element per index of it.
C1_OutputShape ==
    (ValidInputs /\ Returned) =>
        LET sh == <<(ExtentX \div stride) + 1, (ExtentY \div stride) + 1, nchannel>>
        IN  /\ output_image.shape = sh
            /\ DOMAIN output_image.data = Idx3(sh)

C1_Witness ==
    /\ ValidInputs /\ Returned
    /\ nx = 3 /\ ny = 2 /\ nchannel = 2 /\ Side = 2 /\ padding = 1 /\ stride = 2
    /\ output_image.shape = <<2, 2, 2>>

\* C2: for valid inputs every returned value at (i, j, ch) is the clamp to
\* [0, 1] of the cross-correlation of the unflipped kernel with channel ch of
\* the padded image at (i*s, j*s).
C2_CrossCorrelation ==
    (ValidInputs /\ Returned) =>
        \A x \in DOMAIN output_image.data :
            output_image.data[x] = ClampUnit(CrossCorrelation(x[1], x[2], x[3]))

C2_Witness ==
    /\ ValidInputs /\ Returned
    /\ Side >= 2 /\ nchannel = 2 /\ stride = 2 /\ padding = 1
    /\ \E x, y \in DOMAIN output_image.data :
          /\ x[1] > 0 /\ x[2] > 0
          /\ output_image.data[x] = 1
          /\ output_image.data[y] = 0
          /\ CrossCorrelation(x[1], x[2], 0) # CrossCorrelation(x[1], x[2], 1)

\* C3: for valid inputs, also those with samples or weights below 0 or above
\* 1, every element of the returned array lies in [0, 1].
C3_UnitInterval ==
    (ValidInputs /\ Returned) =>
        \A x \in DOMAIN output_image.data :
            0 <= output_image.data[x] /\ output_image.data[x] <= 1

C3_Witness ==
    /\ ValidInputs /\ Returned
    /\ \E x, y \in DOMAIN output_image.data :
          /\ CrossCorrelation(x[1], x[2], x[3]) < 0
          /\ CrossCorrelation(y[1], y[2], y[3]) > 1
    /\ \E x \in DOMAIN input_image.data : input_image.data[x] > 1
    /\ \E x \in DOMAIN kernel.data : kernel.data[x] < 0


\* ------------------------------------------------------------ error handling
Terminated == Returned \/ Raised

\* C4: whenever R + 2p - k < 0 or C + 2p - k < 0 the call fails and returns
\* no output image.  Stated for arguments that meet the other constraints;
\* any exception counts as the failure.
C4_InvalidDimensions ==
    (/\ Square /\ Side >= 1 /\ padding >= 0 /\ stride >= 1
     /\ (ExtentX < 0 \/ ExtentY < 0)
     /\ Terminated)
        => Raised

\* C5: whenever stride <= 0 the call fails and returns no output image.
\* Stated for arguments that meet the other constraints; any exception counts
\* as the failure.
C5_InvalidStride ==
    (/\ Square /\ Side >= 1 /\ padding >= 0 /\ ExtentX >= 0 /\ ExtentY >= 0
     /\ stride <= 0
     /\ Terminated)
        => Raised

\* C6: whenever padding < 0 the call fails and returns no output image.
\* Stated for arguments that meet the other constraints; any exception counts
\* as the failure.
C6_InvalidPadding ==
    (/\ Square /\ Side >= 1 /\ stride >= 1 /\ ExtentX >= 0 /\ ExtentY >= 0
     /\ padding < 0
     /\ Terminated)
        => Raised

\* C7: whenever the two side lengths of the kernel differ the call fails and
\* returns no output image.  Stated for padding >= 0 and stride >= 1; any
\* exception counts as the failure.
C7_NonSquareKernel ==
    (/\ ~Square
     /\ padding >= 0 /\ stride >= 1
     /\ Terminated)
        => Raised

\* C8: whenever the kernel has side length 0 the call fails and returns no
\* output image.  Stated for padding >= 0 and stride >= 1; any exception
\* counts as the failure.
C8_EmptyKernel ==
    (/\ Square /\ Side = 0
     /\ padding >= 0 /\ stride >= 1
     /\ Terminated)
        => Raised

\* C9: every failure is detected before any computation begins: when the
\* call raises, no padded image has been built, no output array allocated
\* and no output pixel computed.
C9_FailBeforeCompute ==
    Raised =>
        /\ (padding > 0 => padded_image = None)
        /\ output_image = None
        /\ writes = <<>>

\* ------------------------------------------------------- stride truncation
NonDividing ==
    /\ ValidInputs
    /\ (ExtentX % stride # 0 \/ ExtentY % stride # 0)

\* C10: when stride does not divide R + 2p - k or C + 2p - k on otherwise
\* valid inputs, the call raises nothing and computes exactly
\* floor(extent / s) + 1 placements along each axis, at the multiples of s;
\* the placement after the last one would not fit in the padded image.
C10_StrideTruncation ==
    NonDividing =>
        /\ ~Raised
        /\ Returned =>
              LET rows == (ExtentX \div stride) + 1
                  cols == (ExtentY \div stride) + 1
              IN  /\ output_image.shape = <<rows, cols, nchannel>>
                  /\ Len(writes) = rows * cols
                  /\ {<<writes[n][3], writes[n][4]>> : n \in 1 .. Len(writes)}
                        = {<<i * stride, j * stride>> :
                              i \in 0 .. rows - 1, j \in 0 .. cols - 1}
                  /\ (ExtentX % stride # 0) =>
                        /\ (rows - 1) * stride + Side < nx + 2 * padding
                        /\ rows * stride + Side > nx + 2 * padding
                  /\ (ExtentY % stride # 0) =>
                        /\ (cols - 1) * stride + Side < ny + 2 * padding
                        /\ cols * stride + Side > ny + 2 * padding

\* A case of it: image 5 x 5 x 1, kernel side 2, padding 0, stride 2; the
\* extent 3 is odd, the placements start at 0 and 2 and the last row and
\* column of the image are never read.
C10_Witness ==
    /\ NonDividing /\ Returned
    /\ input_image.shape = <<5, 5, 1>> /\ Side = 2 /\ padding = 0 /\ stride = 2
    /\ output_image.shape = <<2, 2, 1>>
    /\ Len(writes) = 4
    /\ writes[4] = <<1, 1, 2, 2>>

\* C10 as stated, on its worked example: image 5 x 5 x 1, kernel side 3,
\* padding 0, stride 2 is a case where stride does not divide the extent, a
\* trailing partial placement is dropped and 2 x 2 positions are computed.
C10_WorkedExample ==
    (/\ input_image.shape = <<5, 5, 1>> /\ Square /\ Side = 3
     /\ padding = 0 /\ stride = 2
     /\ Returned)
        => /\ output_image.shape = <<2, 2, 1>>
           /\ Len(writes) = 4
           /\ NonDividing
           /\ writes[Len(writes)][3] + Side < nx + 2 * padding


\* ------------------------------------------------------------- frame effects
InCall == pc \in {"pad", "alloc", "loop", "clamp"}

\* C11: no step of a call, on the padding > 0 branch or the padding = 0
\* branch, towards a return or towards an exception, changes a value of the
\* input image or of the kernel.
C11_InputsUnchanged ==
    [][InCall => (input_image' = input_image /\ kernel' = kernel)]_vars

\* A call that returned after computing pixels from a padded image that is
\* the input array itself.
C11_Witness ==
    /\ Returned
    /\ padding = 0 /\ padded_ref = "image"
    /\ Len(writes) > 1
    /\ \E x \in DOMAIN output_image.data :
          output_image.data[x] # input_image.data[x]

\* C12: the returned array is a new object, not the input image, the kernel
\* or the padded image, also when padding = 0 and the padded image is the
\* input itself; a store into it after the call leaves the input image and
\* the kernel as they were.
C12_ReturnedIsFresh ==
    /\ [](Returned => /\ output_ref \notin {"image", "kernel", Unbound}
                      /\ output_ref # padded_ref)
    /\ [][pc = "done" => (input_image' = input_image /\ kernel' = kernel)]_vars

\* The caller has stored into the array returned by a padding = 0 call whose
\* output has the shape of the input.
C12_Witness ==
    /\ pc = "used"
    /\ padding = 0 /\ padded_ref = "image"
    /\ output_image.shape = input_image.shape
    /\ \E x \in DOMAIN output_image.data :
          output_image.data[x] = 9 /\ input_image.data[x] # 9


\* --------------------------------------------------------------- determinism
\* C13: in any sequence of calls, a call with the arguments of the first call
\* returns exactly when the first call returned, and then returns an
\* element-wise identical array, whatever calls were made in between.
C13_Deterministic ==
    (calls > 1 /\ (Returned \/ Raised) /\ args = first.args) =>
        /\ Returned <=> first.pc = "done"
        /\ Returned => output_image = first.output

\* The third call repeats the first after a different second call, and
\* returns an array of several pixels.
C13_Witness ==
    /\ calls = 3 /\ Returned
    /\ args = first.args /\ first.others = 1
    /\ Len(writes) > 1
    /\ output_image = first.output
    /\ \E x, y \in DOMAIN output_image.data : output_image.data[x] # output_image.data[y]


\* ------------------------------------------------------- constant channels
\* Channel 0 all 0 and channel 1 all 1.
ZeroOneImage ==
    /\ nchannel = 2
    /\ \A x \in DOMAIN input_image.data : input_image.data[x] = x[3]

\* S, the sum of the kernel's weights.
RECURSIVE WeightSum(_)
WeightSum(cells) ==
    IF cells = {} THEN 0
    ELSE LET c == CHOOSE c \in cells : TRUE
         IN  kernel.data[c] + WeightSum(cells \ {c})
KernelSum == WeightSum(DOMAIN kernel.data)

\* The window of output position (i, j) lies inside the unpadded image.
WindowInImage(i, j) ==
    /\ padding <= i * stride /\ i * stride + Side <= padding + nx
    /\ padding <= j * stride /\ j * stride + Side <= padding + ny

\* C14 as stated: on the image with channel 0 all 0 and channel 1 all 1,
\* for every valid padding and stride, channel 0 of the output is 0 and
\* channel 1 is clamp(S) at every output position.
C14_AsStated ==
    (ValidInputs /\ ZeroOneImage /\ Returned) =>
        \A x \in DOMAIN output_image.data :
            output_image.data[x] = IF x[3] = 0 THEN 0 ELSE ClampUnit(KernelSum)

\* C14, amended: channel 0 of the output is 0 at every position, and channel
\* 1 is clamp(S) at every position whose window lies inside the unpadded
\* image, which is every position when padding = 0.
C14_ConstantChannels ==
    (ValidInputs /\ ZeroOneImage /\ Returned) =>
        /\ \A x \in DOMAIN output_image.data :
              /\ x[3] = 0 => output_image.data[x] = 0
              /\ (x[3] = 1 /\ WindowInImage(x[1], x[2])) =>
                    output_image.data[x] = ClampUnit(KernelSum)
        /\ padding = 0 => \A x \in DOMAIN output_image.data : WindowInImage(x[1], x[2])

C14_Witness ==
    /\ ValidInputs /\ ZeroOneImage /\ Returned
    /\ padding = 0 /\ stride = 2 /\ Side = 2 /\ KernelSum = 2
    /\ output_image.shape = <<1, 1, 2>>
    /\ output_image.data[<<0, 0, 0>>] = 0
    /\ output_image.data[<<0, 0, 1>>] = 1


\* -------------------------------------------------------- special kernels
\* C15: with a 1 x 1 kernel holding 1, padding 0 and stride 1 the call
\* returns an array of the shape of the input whose every element is the
\* input element clamped to [0, 1].
IdentityCall ==
    /\ kernel.shape = <<1, 1>> /\ kernel.data[<<0, 0>>] = 1
    /\ padding = 0 /\ stride = 1

C15_IdentityKernel ==
    IdentityCall =>
        /\ ~Raised
        /\ Returned =>
              /\ output_image.shape = input_image.shape
              /\ DOMAIN output_image.data = DOMAIN input_image.data
              /\ \A x \in DOMAIN input_image.data :
                    output_image.data[x] = ClampUnit(input_image.data[x])

C15_Witness ==
    /\ IdentityCall /\ Returned
    /\ output_image.shape = <<3, 2, 2>>
    /\ \E x, y, z \in DOMAIN input_image.data :
          /\ input_image.data[x] = 2 /\ output_image.data[x] = 1
          /\ input_image.data[y] = -1 /\ output_image.data[y] = 0
          /\ input_image.data[z] = 1 /\ x[1] # z[1]

\* C16: for any image and any valid padding and stride, an all-zero kernel
\* gives an output whose every element is 0.
ZeroKernel == \A c \in DOMAIN kernel.data : kernel.data[c] = 0

C16_ZeroKernel ==
    (ValidInputs /\ ZeroKernel) =>
        /\ ~Raised
        /\ Returned => \A x \in DOMAIN output_image.data : output_image.data[x] = 0

C16_Witness ==
    /\ ValidInputs /\ ZeroKernel /\ Returned
    /\ Side = 2 /\ padding = 1 /\ stride = 1
    /\ Len(writes) > 4
    /\ \E x \in DOMAIN input_image.data : input_image.data[x] = 2
    /\ \A x \in DOMAIN output_image.data : output_image.data[x] = 0

\* ------------------------------------------------------------- shape laws
\* C17: with stride 1 and a square kernel of side 2p + 1 the output has the
\* rows, columns and channels of the input.
C17_SamePadding ==
    (Square /\ padding >= 0 /\ stride = 1 /\ Side = 2 * padding + 1) =>
        /\ ~Raised
        /\ Returned => output_image.shape = input_image.shape

\* The worked example, which is also a call with the default padding and
\* stride: image 4 x 4 x 1 and a 3 x 3 kernel.
C17_Witness ==
    /\ Returned
    /\ input_image.shape = <<4, 4, 1>>
    /\ kernel.shape = <<3, 3>>
    /\ padding = DefaultPadding /\ stride = DefaultStride
    /\ output_image.shape = <<4, 4, 1>>
    /\ Len(writes) = 16

\* C18: for valid inputs the last placement along the row axis ends at the
\* last row of the padded image, (R_out - 1) * s + k = R + 2p, exactly when
\* stride divides R + 2p - k; likewise along the column axis.
C18_LastPlacement ==
    (ValidInputs /\ Returned) =>
        LET last == writes[Len(writes)]
        IN  /\ Len(writes) > 0
            /\ last[1] = output_image.shape[1] - 1
            /\ last[2] = output_image.shape[2] - 1
            /\ last[3] = (output_image.shape[1] - 1) * stride
            /\ last[4] = (output_image.shape[2] - 1) * stride
            /\ (last[3] + Side = nx + 2 * padding) <=> (ExtentX % stride = 0)
            /\ (last[4] + Side = ny + 2 * padding) <=> (ExtentY % stride = 0)

\* Stride 2 divides the row extent 2 and not the column extent 1.
C18_Witness ==
    /\ ValidInputs /\ Returned
    /\ nx = 3 /\ ny = 2 /\ Side = 1 /\ padding = 0 /\ stride = 2
    /\ writes[Len(writes)][3] + Side = nx
    /\ writes[Len(writes)][4] + Side < ny


\* C19: for valid inputs the output at stride s is the output at stride 1
\* (same image, kernel and padding) sampled at every s-th row and column:
\* output[i][j][ch] is the stride-1 output at [i*s][j*s][ch]; and the row
\* and column counts of the output never increase as stride increases.
C19_Downsampled ==
    (ValidInputs /\ Returned) =>
        LET unit == ConvolveOf(input_image, kernel, padding, 1)
        IN  /\ output_image = ConvolveOf(input_image, kernel, padding, stride)
            /\ \A x \in DOMAIN output_image.data :
                  /\ <<x[1] * stride, x[2] * stride, x[3]>> \in DOMAIN unit.data
                  /\ output_image.data[x]
                        = unit.data[<<x[1] * stride, x[2] * stride, x[3]>>]
            /\ \A t \in 1 .. stride + 1 :
                  LET rows == OutLen(nx, padding, Side, t)
                      cols == OutLen(ny, padding, Side, t)
                  IN  IF t <= stride
                      THEN rows >= output_image.shape[1] /\ cols >= output_image.shape[2]
                      ELSE rows <= output_image.shape[1] /\ cols <= output_image.shape[2]

\* A stride-2 output of 2 x 2 positions that differs from the top-left
\* corner of the stride-1 output.
C19_Witness ==
    /\ ValidInputs /\ Returned
    /\ stride = 2
    /\ output_image.shape[1] = 2 /\ output_image.shape[2] = 2
    /\ LET unit == ConvolveOf(input_image, kernel, padding, 1)
       IN  /\ unit.shape[1] > 2
           /\ \E x \in DOMAIN output_image.data :
                 output_image.data[x] # unit.data[x]

\* ------------------------------------------------------ returns or fails
\* The error kinds of the contract.
ValidationErrors ==
    {"InvalidDimensions", "InvalidKernel", "InvalidStride", "InvalidPadding"}

\* C20: every call either returns an output image or fails with one of the
\* four validation error kinds InvalidDimensions, InvalidKernel,
\* InvalidStride, InvalidPadding; and on arguments that satisfy the validity
\* constraints it returns an output image and raises no error.
C20_ReturnsOrValidationError ==
    /\ Terminated =>
          \/ Returned /\ exc = "none" /\ output_ref # Unbound
          \/ Raised /\ exc \in ValidationErrors
    /\ (ValidInputs /\ Terminated) => (Returned /\ exc = "none")

\* ------------------------------------------------- failures are reproducible
\* C21: in any sequence of calls, a call with the arguments of the first call
\* ends as the first call ended: it raises the same exception if the first
\* call raised, and it returns if the first call returned, whatever calls
\* were made in between.
C21_SameFailure ==
    (calls > 1 /\ (Returned \/ Raised) /\ args = first.args) =>
        /\ pc = first.pc
        /\ exc = first.exc
        /\ Raised => exc # "none"

\* The third call repeats a first call that raised inside the loop, after a
\* second call that returned nine pixels; and raises the same exception.
C21_Witness ==
    /\ calls = 3 /\ Raised
    /\ args = first.args /\ first.others = 1
    /\ first.pc = "raised"
    /\ exc = "ValueError" /\ first.exc = "ValueError"
    /\ output_ref = "zeros_109"
    /\ padding >= 0 /\ stride >= 1

\* ---------------------------------------------------------- the padded image
\* C22: for padding p > 0 the padded image has shape (R+2p, C+2p, N), holds
\* the input cell (r, c, ch) at [p+r][p+c][ch] and 0 in every cell whose row
\* is outside [p, p+R) or whose column is outside [p, p+C); for p = 0 the
\* padded image is the input.  Stated where the padding step has just been
\* taken and where the call has ended.
C22_PaddedImage ==
    (pc \in {"alloc", "done", "raised"}) =>
        /\ padding > 0 =>
              /\ padded_image.shape = <<nx + 2 * padding, ny + 2 * padding, nchannel>>
              /\ DOMAIN padded_image.data = Idx3(padded_image.shape)
              /\ \A x \in DOMAIN input_image.data :
                    padded_image.data[<<padding + x[1], padding + x[2], x[3]>>]
                        = input_image.data[x]
              /\ \A x \in DOMAIN padded_image.data :
                    (\/ x[1] < padding \/ x[1] >= padding + nx
                     \/ x[2] < padding \/ x[2] >= padding + ny)
                        => padded_image.data[x] = 0
        /\ padding = 0 => padded_image = input_image

\* A padded image of 4 x 5 cells and two channels around an input of 2 x 3
\* whose corner cells are not 0.
C22_Witness ==
    /\ pc = "alloc"
    /\ padding = 1
    /\ nx = 2 /\ ny = 3 /\ nchannel = 2
    /\ padded_image.shape = <<4, 5, 2>>
    /\ padded_image.data[<<1, 1, 1>>] # 0
    /\ padded_image.data[<<2, 3, 1>>] # 0
    /\ padded_image.data[<<0, 0, 0>>] = 0
    /\ padded_image.data[<<3, 4, 1>>] = 0


\* ------------------------------------------------------- one clamp, at the end
\* The first n terms of the window sum of output cell (i, j, ch), kernel
\* cells in row-major order.
RECURSIVE PartialSum(_, _, _, _)
PartialSum(i, j, ch, n) ==
    IF n = 0 THEN 0
    ELSE LET a == (n - 1) \div Side
             b == (n - 1) % Side
         IN  PartialSum(i, j, ch, n - 1)
                + kernel.data[<<a, b>>]
                    * ContractPadded(i * stride + a, j * stride + b, ch)

\* What a clamp after every term would leave after n terms.
RECURSIVE FusedSum(_, _, _, _)
FusedSum(i, j, ch, n) ==
    IF n = 0 THEN 0
    ELSE LET a == (n - 1) \div Side
             b == (n - 1) % Side
         IN  ClampUnit(FusedSum(i, j, ch, n - 1)
                + kernel.data[<<a, b>>]
                    * ContractPadded(i * stride + a, j * stride + b, ch))

\* C23: the clamp is applied once, to the completed window sums.  For valid
\* inputs, when the loop has ended every output cell holds its whole window
\* sum, not truncated, and the returned cell is the clamp of that sum, also
\* where the partial sums leave [0, 1].
C23_ClampOnce ==
    ValidInputs =>
        /\ pc = "clamp" =>
              \A x \in DOMAIN output_image.data :
                  output_image.data[x] = PartialSum(x[1], x[2], x[3], Side * Side)
        /\ Returned =>
              \A x \in DOMAIN output_image.data :
                  output_image.data[x]
                      = ClampUnit(PartialSum(x[1], x[2], x[3], Side * Side))

\* A returned cell whose partial sums leave [0, 1] and come back: the value
\* returned is not the one a clamp after every term would give.
C23_Witness ==
    /\ ValidInputs /\ Returned
    /\ \E x \in DOMAIN output_image.data :
          /\ PartialSum(x[1], x[2], x[3], Side * Side) \in {0, 1}
          /\ output_image.data[x] = PartialSum(x[1], x[2], x[3], Side * Side)
          /\ output_image.data[x] # FusedSum(x[1], x[2], x[3], Side * Side)
          /\ \E n \in 1 .. Side * Side - 1 :
                PartialSum(x[1], x[2], x[3], n) \notin {0, 1}


\* ------------------------------------------------------ windows stay inside
\* C24: for valid inputs every window read lies inside the padded image: at
\* every output index 0 <= i < R_out, 0 <= j < C_out the loop reaches,
\* i*s + k <= R + 2p and j*s + k <= C + 2p, the padded image has R + 2p rows
\* and C + 2p columns, and the window sliced out of it has exactly k x k
\* cells per channel; the same holds of the window of the last pixel written.
C24_WindowsInside ==
    (ValidInputs /\ pc = "loop") =>
        /\ 0 <= ix_out /\ ix_out < (ExtentX \div stride) + 1
        /\ 0 <= iy_out /\ iy_out < (ExtentY \div stride) + 1
        /\ ix_out * stride + Side <= nx + 2 * padding
        /\ iy_out * stride + Side <= ny + 2 * padding
        /\ padded_image.shape = <<nx + 2 * padding, ny + 2 * padding, nchannel>>
        /\ Window.shape = <<Side, Side, nchannel>>
        /\ DOMAIN Window.data = Idx3(<<Side, Side, nchannel>>)
        /\ writes # <<>> =>
              LET w == writes[Len(writes)]
              IN  /\ w[3] = w[1] * stride /\ w[4] = w[2] * stride
                  /\ w[3] >= 0 /\ w[3] + Side <= nx + 2 * padding
                  /\ w[4] >= 0 /\ w[4] + Side <= ny + 2 * padding

\* The loop at its last position, with stride 2 and a kernel of side 2: the
\* window ends exactly on the last row and the last column of the padded image.
C24_Witness ==
    /\ ValidInputs /\ pc = "loop"
    /\ stride = 2 /\ Side = 2 /\ padding = 1
    /\ ix_out >= 1 /\ iy_out >= 1
    /\ ix_out * stride + Side = nx + 2 * padding
    /\ iy_out * stride + Side = ny + 2 * padding
    /\ Len(writes) = nx_out * ny_out - 1


\* ------------------------------------------------------ independent pixels
\* The positions in the order the loop of lines 112-113 takes them.
RowMajor(seq) ==
    \A n \in 1 .. Len(seq) :
        seq[n][1] * ny_out + seq[n][2] = n - 1

\* C25: each output cell depends only on its own window of its own channel
\* and on the kernel: with the output positions computed in any order, every
\* cell computed so far holds the window sum the row-major loop gives it,
\* every other cell is still 0, and the image returned is the image
\* convolve2D returns.
C25_AnyOrder ==
    /\ pc \in {"loop", "clamp"} =>
          \A x \in DOMAIN output_image.data :
              output_image.data[x]
                  = IF <<x[1], x[2]>> \in Written
                    THEN PartialSum(x[1], x[2], x[3], Side * Side)
                    ELSE 0
    /\ Returned =>
          /\ Len(writes) = nx_out * ny_out
          /\ output_image = ConvolveOf(input_image, kernel, padding, stride)

\* Four overlapping windows computed last position first, and the image
\* returned has cells that differ.
C25_Witness ==
    /\ Returned
    /\ Len(writes) = 4 /\ nx_out = 2 /\ ny_out = 2
    /\ ~RowMajor(writes)
    /\ <<writes[1][1], writes[1][2]>> = <<1, 1>>
    /\ <<writes[4][1], writes[4][2]>> = <<0, 0>>
    /\ stride < Side
    /\ nchannel = 2
    /\ \E x, y \in DOMAIN output_image.data : output_image.data[x] # output_image.data[y]


\* ------------------------------------------------- one kernel, every channel
Channels == 0 .. nchannel - 1
\* The exchanges of two channels; every reordering is a sequence of them.
ChannelOrders ==
    {[ch \in Channels |-> IF ch = a THEN b ELSE IF ch = b THEN a ELSE ch] :
        a \in Channels, b \in Channels} \ {[ch \in Channels |-> ch]}

\* Channel ch of the result is channel perm[ch] of arr.
PermuteChannels(arr, perm) ==
    [arr EXCEPT !.data = [x \in DOMAIN arr.data |-> arr.data[<<x[1], x[2], perm[x[3]]>>]]]

\* arr with every sample v of channel c replaced by 1 - v.
AlterChannel(arr, c) ==
    [arr EXCEPT !.data =
        [x \in DOMAIN arr.data |->
            IF x[3] = c THEN 1 - arr.data[x] ELSE arr.data[x]]]

\* C26: the same kernel is applied to every channel.  For valid inputs,
\* convolve2D of the image with its channels permuted is the returned image
\* with its channels permuted the same way; and convolve2D of the image with
\* one channel changed differs from the returned image in that channel only.
C26_ChannelsAlike ==
    (ValidInputs /\ Returned) =>
        /\ \A perm \in ChannelOrders :
              ConvolveOf(PermuteChannels(input_image, perm), kernel, padding, stride)
                  = PermuteChannels(output_image, perm)
        /\ \A c \in Channels :
              LET other == ConvolveOf(AlterChannel(input_image, c), kernel,
                                      padding, stride)
              IN  /\ other.shape = output_image.shape
                  /\ \A x \in DOMAIN output_image.data :
                        x[3] # c => other.data[x] = output_image.data[x]

\* Two channels whose outputs differ, so that swapping them shows; and a
\* change of channel 0 that changes channel 0 of the output.
C26_Witness ==
    /\ ValidInputs /\ Returned
    /\ nchannel = 2 /\ Side = 2
    /\ \E x \in DOMAIN output_image.data :
          /\ x[3] = 0
          /\ output_image.data[x] # output_image.data[<<x[1], x[2], 1>>]
    /\ \E x \in DOMAIN output_image.data :
          /\ x[3] = 0
          /\ ConvolveOf(AlterChannel(input_image, 0), kernel,
                        padding, stride).data[x] # output_image.data[x]


\* ------------------------------------------------------- the loop terminates
\* C27: for valid inputs the pixel loop ends after exactly R_out * C_out
\* passes, R_out >= 1 and C_out >= 1: a call in the loop reaches the clamp,
\* and by then every output position (i, j) has been written exactly once,
\* in row-major order.
C27_LoopTerminates ==
    /\ [](ValidInputs =>
            /\ pc \in {"loop", "clamp", "done"} =>
                  /\ nx_out = (ExtentX \div stride) + 1 /\ nx_out >= 1
                  /\ ny_out = (ExtentY \div stride) + 1 /\ ny_out >= 1
                  /\ RowMajor(writes)
            /\ pc = "loop" => Len(writes) < nx_out * ny_out
            /\ pc \in {"clamp", "done"} =>
                  /\ Len(writes) = nx_out * ny_out
                  /\ Written = (0 .. nx_out - 1) \X (0 .. ny_out - 1))
    /\ (ValidInputs /\ pc = "loop") ~> (pc = "clamp")

\* The loop over, before the clamp, after six passes over two rows of three.
C27_Witness ==
    /\ ValidInputs /\ pc = "clamp"
    /\ nx_out = 2 /\ ny_out = 3
    /\ Len(writes) = 6
    /\ Cardinality(Written) = 6
    /\ stride = 2


\* ------------------------------------------------------- padding and size
\* The output count along an axis of n input cells with padding q.
CountAt(n, q) == ((n + 2 * q - Side) \div stride) + 1

\* C28: for valid inputs, with image, kernel and stride fixed the output row
\* and column counts do not decrease as padding increases: no smaller
\* padding gives more rows or columns than the call computed and no larger
\* padding gives fewer; and with stride 1 the output has at least the rows
\* and the columns of the input exactly when 2p >= k - 1.
C28_PaddingGrows ==
    (ValidInputs /\ pc \in {"loop", "clamp", "done"}) =>
        /\ nx_out = CountAt(nx, padding)
        /\ ny_out = CountAt(ny, padding)
        /\ \A q \in 0 .. MaxPad + 1 :
              /\ q <= padding => (CountAt(nx, q) <= nx_out /\ CountAt(ny, q) <= ny_out)
              /\ q >= padding => (CountAt(nx, q) >= nx_out /\ CountAt(ny, q) >= ny_out)
        /\ stride = 1 =>
              ((nx_out >= nx /\ ny_out >= ny) <=> 2 * padding >= Side - 1)
        /\ Returned =>
              /\ output_image.shape[1] = nx_out
              /\ output_image.shape[2] = ny_out

\* Stride 1, a kernel of side 2 and padding 1: the output returned has one
\* row and one column more than the input, and two more than padding 0 gives.
C28_Witness ==
    /\ ValidInputs /\ Returned
    /\ stride = 1 /\ Side = 2 /\ padding = 1
    /\ nx = 3 /\ ny = 2
    /\ output_image.shape = <<4, 3, nchannel>>
    /\ CountAt(nx, 0) = 2 /\ CountAt(ny, 0) = 1

====
